---- MODULE Spec2Model ----
(***************************************************************************)
(* A model of the photomosaic engine of src/tiler/tiler.py: colour         *)
(* quantization, tile loading, box partitioning, matching, compositing.    *)
(*                                                                         *)
(* Conventions.  A pixel is a tuple <<b, g, r, a>> of 8-bit values.  An    *)
(* image (a numpy array of shape (h, w, 4)) is a record [h, w, px] with    *)
(* px[y][x] the pixel of row y, column x, both counted from 1; the code's  *)
(* positions and slice bounds are counted from 0 and are kept that way.    *)
(* A Python float that is a quotient of small integers (a relative         *)
(* frequency, a match distance) is the exact rational <<num, den>>.        *)
(***************************************************************************)
EXTENDS Integers, Sequences, FiniteSets, TLC

\* Python's None, where the other values are tuples, arrays or lists
None == <<>>

Min(a, b) == IF a <= b THEN a ELSE b

Max(a, b) == IF a >= b THEN a ELSE b

--------------------------------------------------------------------------
(* numpy arrays                                                            *)

MkImage(h, w, F(_, _)) ==
    [h |-> h, w |-> w, px |-> [y \in 1..h |-> [x \in 1..w |-> F(y, x)]]]

\* img[y0:y1, x0:x1] for bounds >= 0: the slice is clipped to the array
Slice(image, y0, y1, x0, x1) ==
    LET ya == Min(y0, image.h)
        yb == Max(ya, Min(y1, image.h))
        xa == Min(x0, image.w)
        xb == Max(xa, Min(x1, image.w))
    IN  MkImage(yb - ya, xb - xa, LAMBDA y, x : image.px[ya + y][xa + x])

\* np.zeros(shape=(h, w, 4))
Zeros(h, w) == MkImage(h, w, LAMBDA y, x : <<0, 0, 0, 0>>)

\* the pixels of an image in row-major order, as the nested loops visit them
Flat(image) ==
    [i \in 1..(image.h * image.w) |->
        image.px[((i - 1) \div image.w) + 1][((i - 1) % image.w) + 1]]

--------------------------------------------------------------------------
(* color_quantization, followed by .astype("uint8")                        *)

\* np.round(v / 255 * n): round half to even; 2*v*n = 255*(2k+1) has no
\* solution (even = odd), so no tie occurs and rounding half up is the same
RoundLevel(v, n) == (2 * v * n + 255) \div 510

\* np.round(v / 255 * n) / n * 255, then astype("uint8"), which truncates
QuantizeU8(v, n) == (RoundLevel(v, n) * 255) \div n

QuantizePixel(p, n) == [c \in 1..4 |-> QuantizeU8(p[c], n)]

QuantizeImage(image, n) ==
    MkImage(image.h, image.w, LAMBDA y, x : QuantizePixel(image.px[y][x], n))

--------------------------------------------------------------------------
(* mode_color                                                              *)

Sentinel == <<-1, -1, -1>>

\* the counter key of one pixel (every pixel here has 4 channels)
ColorKey(x, ignore_alpha) ==
    IF ignore_alpha \/ x[4] # 0 THEN <<x[1], x[2], x[3]>> ELSE Sentinel

\* counter[k] after the loops over the pixels keyed by keys
KeyCount(keys, k) == Cardinality({i \in 1..Len(keys) : keys[i] = k})

\* max(counter, key=counter.get) returns the first key, in insertion order,
\* that has the largest count: the key of the earliest pixel whose key has it
mode_color(image, ignore_alpha) ==
    LET total == image.h * image.w
        flat  == Flat(image)
        keys  == [i \in 1..total |-> ColorKey(flat[i], ignore_alpha)]
        cnt   == [i \in 1..total |-> KeyCount(keys, keys[i])]
        best  == CHOOSE i \in 1..total :
                    /\ \A j \in 1..total : cnt[j] <= cnt[i]
                    /\ \A j \in 1..(i - 1) : cnt[j] < cnt[i]
    IN  IF total > 0 /\ keys[best] # Sentinel
        THEN [mode |-> keys[best], freq |-> <<cnt[best], total>>]
        ELSE [mode |-> None, freq |-> None]

--------------------------------------------------------------------------
(* resize_image                                                            *)

\* int(n * ratio) for a ratio <<p, q>> > 0
ScaledLen(n, ratio) == (n * ratio[1]) \div ratio[2]

\* cv2.resize(img, (int(w * ratio), int(h * ratio))).  At an unchanged size
\* the interpolation returns the image itself; at another size the pixel
\* nearest to the sample point is taken, which is what every interpolation
\* gives on the single-colour images that are resized here.
resize_image(image, ratio) ==
    LET nh == ScaledLen(image.h, ratio)
        nw == ScaledLen(image.w, ratio)
    IN  MkImage(nh, nw,
            LAMBDA y, x : image.px[(((y - 1) * image.h) \div nh) + 1]
                                [(((x - 1) * image.w) \div nw) + 1])

--------------------------------------------------------------------------
(* load_tiles_with_config                                                  *)

\* cv2.imread returns None for a file it cannot decode
Unreadable == [unreadable |-> TRUE]

\* tiles[res].append(t) on a defaultdict(list); a dict keeps its keys in
\* insertion order, so the library is a sequence of [res, ts] entries
AppendTile(lib, res, t) ==
    IF \E i \in 1..Len(lib) : lib[i].res = res
    THEN [i \in 1..Len(lib) |->
            IF lib[i].res = res
            THEN [lib[i] EXCEPT !.ts = Append(@, t)]
            ELSE lib[i]]
    ELSE Append(lib, [res |-> res, ts |-> <<t>>])

\* the inner loop: one resized variant per scale
RECURSIVE AddVariants(_, _, _, _, _)
AddVariants(lib, tile, mode, rel_freq, rs) ==
    IF rs = <<>> THEN lib
    ELSE LET t == resize_image(tile, Head(rs))
         IN  AddVariants(
                 AppendTile(lib, <<t.h, t.w>>,
                            [tile |-> t, mode |-> mode, rel_freq |-> rel_freq]),
                 tile, mode, rel_freq, Tail(rs))

\* whether the loader keeps a tile: "if mode is not None"
TileKept(mode) == mode # None

\* the loop over one directory's files
RECURSIVE LoadDir(_, _, _, _)
LoadDir(lib, files, rs, cd) ==
    IF files = <<>> THEN lib
    ELSE IF Head(files) = Unreadable THEN LoadDir(lib, Tail(files), rs, cd)
    ELSE LET tile == QuantizeImage(Head(files), cd)
             m    == mode_color(tile, TRUE)
         IN  LoadDir(IF TileKept(m.mode)
                     THEN AddVariants(lib, tile, m.mode, m.freq, rs)
                     ELSE lib,
                     Tail(files), rs, cd)

\* the loop over the paths.  A path is a directory with its files, a pickle
\* file with the library it holds, or missing.  A path that is no directory
\* is opened: "tiles = pickle.load(f)" replaces what was loaded so far, and
\* open() of a path that does not exist raises.
RECURSIVE LoadPaths(_, _, _, _)
LoadPaths(lib, path_list, rs, cd) ==
    IF path_list = <<>> THEN [tiles |-> lib, raised |-> None]
    ELSE IF Head(path_list).kind = "dir"
    THEN LoadPaths(LoadDir(lib, Head(path_list).files, rs, cd),
                   Tail(path_list), rs, cd)
    ELSE IF Head(path_list).kind = "pickle"
    THEN LoadPaths(Head(path_list).content, Tail(path_list), rs, cd)
    ELSE [tiles |-> None, raised |-> <<"FileNotFoundError">>]

load_tiles_with_config(path_list, resizing_scales, color_depth) ==
    LoadPaths(<<>>, path_list, resizing_scales, color_depth)

--------------------------------------------------------------------------
(* image_boxes                                                             *)

\* list(range(0, n, step)) for step > 0
RECURSIVE RangeFrom(_, _, _)
RangeFrom(a, n, step) ==
    IF a >= n THEN <<>> ELSE <<a>> \o RangeFrom(a + step, n, step)

\* the auto stride taken as the resolution itself, without np.flip
ShiftOfUnflipped(shift_global, res) ==
    IF shift_global = None THEN res ELSE shift_global

\* "shift = np.flip(res)" unless PIXEL_SHIFT is set: a stride is (x, y)
ShiftOf(shift_global, res) ==
    IF shift_global = None THEN <<res[2], res[1]>> ELSE shift_global

\* a box that records its position as (y, x)
BoxAtTransposed(image, res, x, y) ==
    [img |-> Slice(image, y, y + res[1], x, x + res[2]), pos |-> <<y, x>>]

\* the box at (x, y): the slice of res rows and columns, clipped by numpy
BoxAt(image, res, x, y) ==
    [img |-> Slice(image, y, y + res[1], x, x + res[2]), pos |-> <<x, y>>]

\* the boxes in the order of the loops, y outer and x inner; range() with a
\* step of 0 raises ValueError, and with a negative step it is empty
image_boxes(image, res, shift_global) ==
    LET shift == ShiftOf(shift_global, res)
        ys == IF shift[2] > 0 THEN RangeFrom(0, image.h, shift[2]) ELSE <<>>
        xs == IF shift[1] > 0 THEN RangeFrom(0, image.w, shift[1]) ELSE <<>>
        n  == Len(ys) * Len(xs)
    IN  IF shift[2] = 0 \/ (ys # <<>> /\ shift[1] = 0)
        THEN [boxes |-> <<>>, raised |-> <<"ValueError">>]
        ELSE [boxes |-> [i \in 1..n |->
                            BoxAt(image, res,
                                  xs[((i - 1) % Len(xs)) + 1],
                                  ys[((i - 1) \div Len(xs)) + 1])],
              raised |-> None]

--------------------------------------------------------------------------
(* color_distance, most_similar_tile                                       *)

\* math.sqrt, exact on the perfect squares that the colours used here give
ISqrt(n) == CHOOSE r \in 0..n : r * r <= n /\ n < (r + 1) * (r + 1)

Sq(a) == a * a

color_distance(c1, c2) ==
    ISqrt(Sq(c1[1] - c2[1]) + Sq(c1[2] - c2[2]) + Sq(c1[3] - c2[3]))

\* a < b for two floats held as rationals with positive denominators
RatLess(a, b) == a[1] * b[2] < b[1] * a[2]

\* the distance divided by the tile's own relative frequency
TileDistByTileFreq(bmf, t) ==
    <<(1 + color_distance(bmf.mode, t.mode)) * t.rel_freq[2], t.rel_freq[1]>>

\* the distance without the 1 added to it
TileDistNoOffset(bmf, t) ==
    <<color_distance(bmf.mode, t.mode) * bmf.freq[2], bmf.freq[1]>>

\* (1 + color_distance(box mode, tile mode)) / box frequency
TileDist(bmf, t) ==
    <<(1 + color_distance(bmf.mode, t.mode)) * bmf.freq[2], bmf.freq[1]>>

\* the loop over the bucket: a tile replaces the best one so far only when
\* its distance is strictly smaller
RECURSIVE BestTile(_, _, _)
BestTile(bmf, tile_lib, best) ==
    IF tile_lib = <<>> THEN best
    ELSE LET dist == TileDist(bmf, Head(tile_lib))
         IN  BestTile(bmf, Tail(tile_lib),
                 IF best.min_dist = None \/ RatLess(dist, best.min_dist)
                 THEN [min_dist |-> dist, tile |-> Head(tile_lib).tile]
                 ELSE best)

\* a matcher without the placeholder: a box with no mode gets the bucket's
\* first tile
MostSimilarNoPlaceholder(bmf, tile_lib) ==
    IF bmf.mode = None
    THEN IF tile_lib = <<>>
         THEN [min_dist |-> None, tile |-> None, raised |-> <<"IndexError">>]
         ELSE [min_dist |-> <<0, 1>>, tile |-> tile_lib[1].tile, raised |-> None]
    ELSE LET b == BestTile(bmf, tile_lib, [min_dist |-> None, tile |-> None])
         IN  [min_dist |-> b.min_dist, tile |-> b.tile, raised |-> None]

\* "if not box_mode_freq[0]": the mode is None (a colour tuple is never
\* falsy); tiles[0] of an empty bucket raises IndexError
most_similar_tile(bmf, tile_lib) ==
    IF bmf.mode = None
    THEN IF tile_lib = <<>>
         THEN [min_dist |-> None, tile |-> None, raised |-> <<"IndexError">>]
         ELSE [min_dist |-> <<0, 1>>,
               tile |-> Zeros(tile_lib[1].tile.h, tile_lib[1].tile.w),
               raised |-> None]
    ELSE LET b == BestTile(bmf, tile_lib, [min_dist |-> None, tile |-> None])
         IN  [min_dist |-> b.min_dist, tile |-> b.tile, raised |-> None]

--------------------------------------------------------------------------
(* sorted(boxes, key=min_dist, reverse=ov)                                 *)

\* sorted() is stable, also with reverse=True: boxes with equal distances
\* keep the order they have in the pool
RECURSIVE InsertBox(_, _, _)
InsertBox(sorted, b, reverse) ==
    IF sorted = <<>> THEN <<b>>
    ELSE IF (IF reverse
             THEN RatLess(Head(sorted).min_dist, b.min_dist)
             ELSE RatLess(b.min_dist, Head(sorted).min_dist))
    THEN <<b>> \o sorted
    ELSE <<Head(sorted)>> \o InsertBox(Tail(sorted), b, reverse)

RECURSIVE SortedFrom(_, _, _)
SortedFrom(done, boxes, reverse) ==
    IF boxes = <<>> THEN done
    ELSE SortedFrom(InsertBox(done, Head(boxes), reverse), Tail(boxes), reverse)

SortBoxes(boxes, reverse) == SortedFrom(<<>>, boxes, reverse)

\* sorted() compares the keys of two or more boxes: a min_dist of None
\* (a box matched against an empty bucket) raises TypeError
SortRaises(boxes) ==
    /\ Len(boxes) >= 2
    /\ \E i \in 1..Len(boxes) : boxes[i].min_dist = None

--------------------------------------------------------------------------
(* place_tile                                                              *)

\* img_box = img[p1[0]:p2[0], p1[1]:p2[1]] with p1 = flip(pos) and
\* p2 = p1 + box["img"].shape[:2]: the shape of that view
ImgBoxShape(image, box) ==
    <<Max(0, Min(box.pos[2] + box.img.h, image.h) - Min(box.pos[2], image.h)),
      Max(0, Min(box.pos[1] + box.img.w, image.w) - Min(box.pos[1], image.w))>>

\* the mask taken over the whole tile, without the crop to the box
MaskShapeUncropped(image, box) == <<box.tile.h, box.tile.w>>

\* mask = (tile[:, :, 3] != 0)[:img_box.shape[0], :img_box.shape[1]]:
\* its shape
MaskShape(image, box) ==
    <<Min(box.tile.h, ImgBoxShape(image, box)[1]),
      Min(box.tile.w, ImgBoxShape(image, box)[2])>>

\* the canvas positions <<row, column>> (from 1) under the mask
Masked(image, box) ==
    LET shape == MaskShape(image, box)
    IN  {p \in (1..image.h) \X (1..image.w) :
            /\ p[1] - box.pos[2] \in 1..shape[1]
            /\ p[2] - box.pos[1] \in 1..shape[2]
            /\ box.tile.px[p[1] - box.pos[2]][p[2] - box.pos[1]][4] # 0}

\* the first-fit test taken over the whole canvas instead of the box's view
AnyOnCanvas(image, box) ==
    \E p \in (1..image.h) \X (1..image.w) : image.px[p[1]][p[2]] # <<0, 0, 0, 0>>

\* np.any(img_box[mask]): some channel of some pixel under the mask is set
AnyUnderMask(image, box) ==
    \E p \in Masked(image, box) : image.px[p[1]][p[2]] # <<0, 0, 0, 0>>

\* the positions place_tile assigns; the test reads the module's flag
Written(image, box, overlap) ==
    IF overlap \/ ~AnyUnderMask(image, box) THEN Masked(image, box) ELSE {}

\* box["tile"][:, :, 3] of a tile that is None raises TypeError; a boolean
\* index whose shape differs from the indexed array's raises IndexError
place_tile(image, box, overlap) ==
    LET w == Written(image, box, overlap)
    IN  IF box.tile = None
        THEN [img |-> image, raised |-> <<"TypeError">>]
        ELSE IF MaskShape(image, box) # ImgBoxShape(image, box)
        THEN [img |-> image, raised |-> <<"IndexError">>]
        ELSE [img |-> MkImage(image.h, image.w,
                        LAMBDA y, x :
                            IF <<y, x>> \in w
                            THEN box.tile.px[y - box.pos[2]][x - box.pos[1]]
                            ELSE image.px[y][x]),
              raised |-> None]

--------------------------------------------------------------------------
(* get_processed_image_boxes_from_img: helpers                             *)

\* res tuples compare lexicographically
ResLess(a, b) == a[1] < b[1] \/ (a[1] = b[1] /\ a[2] < b[2])

\* sorted(tiles.items(), reverse=True): the keys of a dict are distinct, so
\* the order is that of the res keys alone, largest first
RECURSIVE InsertItem(_, _)
InsertItem(sorted, it) ==
    IF sorted = <<>> THEN <<it>>
    ELSE IF ResLess(Head(sorted).res, it.res) THEN <<it>> \o sorted
    ELSE <<Head(sorted)>> \o InsertItem(Tail(sorted), it)

RECURSIVE ItemsFrom(_, _)
ItemsFrom(done, lib) ==
    IF lib = <<>> THEN done
    ELSE ItemsFrom(InsertItem(done, Head(lib)), Tail(lib))

\* the buckets taken in the library's insertion order, without the sort
ItemsUnsorted(lib) == lib

SortedItems(lib) == ItemsFrom(<<>>, lib)

\* the override of the module's PIXEL_SHIFT for the call
ShiftOverride(shift_global, pixel_shift) ==
    IF pixel_shift = <<"auto">> THEN None
    ELSE IF pixel_shift # None THEN pixel_shift
    ELSE shift_global

\* boxes[i]["min_dist"], boxes[i]["tile"] = most_similar_tiles[i]
SetMatch(box, m) ==
    [img |-> box.img, pos |-> box.pos, min_dist |-> m.min_dist, tile |-> m.tile]

\* modes = list(map(mode_color, imgs));
\* most_similar_tiles = [most_similar_tile(m, ts) for m in modes]
MatchAll(boxes, ts) ==
    LET sim == [i \in 1..Len(boxes) |->
                    most_similar_tile(mode_color(boxes[i].img, FALSE), ts)]
    IN  IF \E i \in 1..Len(boxes) : sim[i].raised # None
        THEN [boxes |-> <<>>,
              raised |-> sim[CHOOSE i \in 1..Len(boxes) :
                              /\ sim[i].raised # None
                              /\ \A j \in 1..(i - 1) : sim[j].raised = None].raised]
        ELSE [boxes |-> [i \in 1..Len(boxes) |-> SetMatch(boxes[i], sim[i])],
              raised |-> None]

\* arr[:, :, [2, 1, 0, 3]]: RGBA <-> BGRA
SwapRB(image) ==
    MkImage(image.h, image.w,
        LAMBDA y, x : <<image.px[y][x][3], image.px[y][x][2],
                        image.px[y][x][1], image.px[y][x][4]>>)

\* read_image_from_array with image_scale = 1: quantization only
read_image_from_array(arr, color_depth) == QuantizeImage(arr, color_depth)

--------------------------------------------------------------------------
(* Bounds and inputs                                                       *)

\* the largest source image has MaxPixels pixels
MaxPixels == 4

Transparent == <<0, 0, 0, 0>>

Black == <<0, 0, 0, 255>>

\* a colour that quantization moves: 100 becomes 127 at two levels
Grey == <<100, 0, 0, 255>>

Uniform(h, w, p) == MkImage(h, w, LAMBDA y, x : p)

\* the source images: RGBA pixels, every shape of at most MaxPixels pixels
ImagePalette == {Transparent, Black}

ImagesOfShape(h, w) ==
    {[h |-> h, w |-> w, px |-> f] : f \in [1..h -> [1..w -> ImagePalette]]}

Images ==
    UNION {UNION {ImagesOfShape(h, w) : w \in 1..(MaxPixels \div h)} :
           h \in 1..MaxPixels}

\* tile files as cv2.imread decodes them (BGRA): opaque, partly and fully
\* transparent, of three sizes
Black11 == Uniform(1, 1, Black)

Grey11 == Uniform(1, 1, Grey)

Clear11 == Uniform(1, 1, Transparent)

Mixed12 == [h |-> 1, w |-> 2, px |-> <<<<Black, Grey>>>>]

Holed22 ==
    [h |-> 2, w |-> 2, px |-> <<<<Black, Transparent>>, <<Grey, Black>>>>]

\* os.listdir of a tile directory: its files in the order they are read
Listings ==
    {<<>>, <<Unreadable>>, <<Clear11>>, <<Unreadable, Holed22>>,
     <<Black11, Grey11>>, <<Grey11, Black11>>,
     <<Black11, Holed22>>, <<Holed22, Black11>>,
     <<Mixed12, Clear11>>, <<Grey11, Mixed12, Holed22>>}

Dir(l) == [kind |-> "dir", files |-> l, content |-> <<>>]

Pickle(lib) == [kind |-> "pickle", files |-> <<>>, content |-> lib]

Missing == [kind |-> "missing", files |-> <<>>, content |-> <<>>]

PathLists == {<<Dir(l)>> : l \in Listings} \cup {<<Missing>>}

ResizingScales == {<<(<<1, 1>>)>>}

ColorDepths == {2}

\* pixel_shift: None (the module's PIXEL_SHIFT), "auto" or a stride (x, y)
PixelShiftArgs == {None, <<"auto">>, <<2, 1>>}

\* overlap_tiles: None (the module's OVERLAP_TILES) or <<flag>>
OverlapArgs == {None, <<TRUE>>, <<FALSE>>}

--------------------------------------------------------------------------
(* State                                                                   *)

VARIABLES
    OVERLAP_TILES,  \* the module's flag, set from conf at import
    PIXEL_SHIFT,    \* the module's stride, set from conf at import
    pc,             \* where the caller is: idle, loaded, boxes, returned,
                    \* tiling, done, failed
    paths,          \* the paths load_tiles_with_config was called with
    tiles,          \* the library: a sequence of [res, ts] in dict order
    args,           \* the keyword arguments of build_mosaic_from_pil
    img,            \* img_proc
    old_shift,      \* the local old_shift
    items,          \* the (res, ts) pairs the loop has still to visit
    all_boxes,      \* the pool of matched boxes
    order,          \* sorted(boxes, ...) in create_tiled_image_config
    placed,         \* how many boxes of order place_tile has been called on
    canvas,         \* the local img of create_tiled_image_config
    before,         \* history: the canvas before the last place_tile
    writers,        \* history: per canvas position, the boxes that wrote it
    raised,         \* the exception that left the call, or None
    out,            \* the image build_mosaic_from_pil returned
    pool,           \* the multiprocessing pool's work on one resolution
    qt,             \* quantization of one channel value, applied twice
    ib,             \* one call of image_boxes
    th,             \* calls of get_processed_image_boxes_from_img in threads
    mt              \* one call of mode_color and of most_similar_tile

vars == <<OVERLAP_TILES, PIXEL_SHIFT, pc, paths, tiles, args, img, old_shift,
          items, all_boxes, order, placed, canvas, before, writers, raised,
          out, pool, qt, ib, th, mt>>

buildVars == <<args, img, old_shift, items, all_boxes, order, placed, canvas,
               before, writers, out, pool>>

NoImage == Zeros(0, 0)

\* no map is under way; overtaken is history: some task has finished before
\* a task submitted earlier
PoolIdle == [phase |-> "idle", boxes |-> <<>>, pending |-> {}, done |-> 0,
             modes |-> <<>>, sims |-> <<>>, overtaken |-> FALSE]

NoArgs == [pixel_shift |-> None, overlap_tiles |-> None, pool_size |-> 0,
           color_depth |-> 0]

\* the state of a process that has imported the module and called nothing
Imported ==
    /\ pc = "idle"
    /\ paths = <<>>
    /\ tiles = <<>>
    /\ args = NoArgs
    /\ img = NoImage
    /\ old_shift = None
    /\ items = <<>>
    /\ all_boxes = <<>>
    /\ order = <<>>
    /\ placed = 0
    /\ canvas = NoImage
    /\ before = NoImage
    /\ writers = <<>>
    /\ raised = None
    /\ out = NoImage
    /\ pool = PoolIdle

QtIdle == [pc |-> "idle", v |-> 0, n |-> 1, q1 |-> 0, q2 |-> 0]

IbIdle == [pc |-> "idle", img |-> NoImage, res |-> <<1, 1>>, boxes |-> <<>>,
           raised |-> None]

\* no thread has called anything; initial is history: PIXEL_SHIFT at import
ThIdle == [initial |-> None, calls |-> <<>>]

MtIdle == [pc |-> "idle", img |-> NoImage, tiles |-> <<>>,
           bmf |-> [mode |-> None, freq |-> None],
           sim |-> [min_dist |-> None, tile |-> None, raised |-> None]]

\* conf.py sets the module's defaults; any value it may hold is possible
Init ==
    /\ OVERLAP_TILES \in BOOLEAN
    /\ PIXEL_SHIFT \in {<<1, 1>>}
    /\ Imported
    /\ qt = QtIdle
    /\ ib = IbIdle
    /\ th = ThIdle
    /\ mt = MtIdle

--------------------------------------------------------------------------
(* Operations                                                              *)

\* tiles = load_tiles_with_config(paths, resizing_scales, color_depth)
LoadFrom(PathSets) ==
    /\ pc = "idle"
    /\ \E ps \in PathSets, rs \in ResizingScales, cd \in ColorDepths :
        LET r == load_tiles_with_config(ps, rs, cd)
        IN  /\ paths' = ps
            /\ tiles' = r.tiles
            /\ raised' = r.raised
            /\ pc' = IF r.raised = None THEN "loaded" ELSE "failed"
    /\ UNCHANGED <<OVERLAP_TILES, PIXEL_SHIFT, buildVars, qt, ib, th, mt>>

Load == LoadFrom(PathLists)

\* build_mosaic_from_pil(pil_image, tiles=tiles, ...) up to the loop of
\* get_processed_image_boxes_from_img
BuildStart(Pils, Shifts, Overlaps, PoolSizes) ==
    /\ pc = "loaded"
    /\ \E pil \in Pils, sh \in Shifts, ov \in Overlaps,
          cd \in ColorDepths, ps \in PoolSizes :
        /\ args' = [pixel_shift |-> sh, overlap_tiles |-> ov,
                    pool_size |-> ps, color_depth |-> cd]
        /\ img' = read_image_from_array(SwapRB(pil), cd)
        /\ old_shift' = PIXEL_SHIFT
        /\ PIXEL_SHIFT' = ShiftOverride(PIXEL_SHIFT, sh)
    /\ items' = SortedItems(tiles)
    /\ all_boxes' = <<>>
    /\ pc' = "boxes"
    /\ UNCHANGED <<OVERLAP_TILES, paths, tiles, order, placed, canvas, before,
                   writers, raised, out, pool, qt, ib, th, mt>>

\* one pass of the loop without a pool: partition, match, extend the pool of
\* boxes; an exception leaves the loop
MatchSequential ==
    /\ pc = "boxes"
    /\ raised = None
    /\ items # <<>>
    /\ args.pool_size <= 1
    /\ LET b == image_boxes(img, Head(items).res, PIXEL_SHIFT)
           m == MatchAll(b.boxes, Head(items).ts)
       IN  IF b.raised # None
           THEN /\ raised' = b.raised
                /\ UNCHANGED <<items, all_boxes>>
           ELSE IF m.raised # None
           THEN /\ raised' = m.raised
                /\ UNCHANGED <<items, all_boxes>>
           ELSE /\ all_boxes' = all_boxes \o m.boxes
                /\ items' = Tail(items)
                /\ UNCHANGED raised
    /\ UNCHANGED <<OVERLAP_TILES, PIXEL_SHIFT, pc, paths, tiles, args, img,
                   old_shift, order, placed, canvas, before, writers, out,
                   pool, qt, ib, th, mt>>

\* the finally clause, then the return or the propagation of the exception
Finally ==
    /\ pc = "boxes"
    /\ items = <<>> \/ raised # None
    /\ pool.phase = "idle"
    /\ PIXEL_SHIFT' = old_shift
    /\ pc' = IF raised = None THEN "returned" ELSE "failed"
    /\ UNCHANGED <<OVERLAP_TILES, paths, tiles, buildVars, raised, qt, ib, th,
                   mt>>

\* the argument's flag, or the module's when the argument is None
OverlapOf(overlap_global, overlap_tiles) ==
    IF overlap_tiles = None THEN overlap_global ELSE overlap_tiles[1]

\* create_tiled_image_config up to its loop: the canvas and the order
TileStart ==
    /\ pc = "returned"
    /\ canvas' = Zeros(img.h, img.w)
    /\ before' = Zeros(img.h, img.w)
    /\ writers' = [p \in (1..img.h) \X (1..img.w) |-> <<>>]
    /\ placed' = 0
    /\ IF SortRaises(all_boxes)
       THEN /\ raised' = <<"TypeError">>
            /\ pc' = "failed"
            /\ UNCHANGED order
       ELSE /\ order' = SortBoxes(all_boxes,
                                  OverlapOf(OVERLAP_TILES, args.overlap_tiles))
            /\ pc' = "tiling"
            /\ UNCHANGED raised
    /\ UNCHANGED <<OVERLAP_TILES, PIXEL_SHIFT, paths, tiles, args, img,
                   old_shift, items, all_boxes, out, pool, qt, ib, th, mt>>

\* place_tile(img, box) for the next box of the order
PlaceNext ==
    /\ pc = "tiling"
    /\ placed < Len(order)
    /\ LET box == order[placed + 1]
           r   == place_tile(canvas, box, OVERLAP_TILES)
       IN  /\ before' = canvas
           /\ canvas' = r.img
           /\ raised' = r.raised
           /\ pc' = IF r.raised = None THEN "tiling" ELSE "failed"
           /\ writers' = IF r.raised # None THEN writers
                         ELSE [p \in DOMAIN writers |->
                                 IF p \in Written(canvas, box, OVERLAP_TILES)
                                 THEN Append(writers[p], placed + 1)
                                 ELSE writers[p]]
    /\ placed' = placed + 1
    /\ UNCHANGED <<OVERLAP_TILES, PIXEL_SHIFT, paths, tiles, args, img,
                   old_shift, items, all_boxes, order, out, pool, qt, ib, th, mt>>

\* a return inside the loop's body: after the first box
LoopEntered == placed >= 1

\* the for loop of create_tiled_image_config has run over every box
LoopExhausted == placed = Len(order)

\* the canvas is returned, converted from BGRA to RGBA
Return ==
    /\ pc = "tiling"
    /\ LoopExhausted
    /\ out' = SwapRB(canvas)
    /\ pc' = "done"
    /\ UNCHANGED <<OVERLAP_TILES, PIXEL_SHIFT, paths, tiles, args, img,
                   old_shift, items, all_boxes, order, placed, canvas, before,
                   writers, raised, pool, qt, ib, th, mt>>

Next ==
    \/ Load
    \/ BuildStart(Images, PixelShiftArgs, OverlapArgs, {1})
    \/ MatchSequential
    \/ Finally
    \/ TileStart
    \/ PlaceNext
    \/ Return

Spec == Init /\ [][Next]_vars

--------------------------------------------------------------------------
(* The same loop with a multiprocessing pool (pool_size > 1)               *)

\* results stored in the order the workers finish
PoolSlotByCompletion(i, done) == done + 1

\* pool.map and pool.starmap return the results in the order of the inputs,
\* whichever worker finishes first: task i fills slot i
PoolResultSlot(i, done) == i

NoMode == [mode |-> None, freq |-> None]

NoSim == [min_dist |-> None, tile |-> None, raised |-> None]

\* boxes = image_boxes(img, res); modes = pool.map(mode_color, imgs) starts
PoolMapModes ==
    /\ pc = "boxes"
    /\ raised = None
    /\ items # <<>>
    /\ args.pool_size > 1
    /\ pool.phase = "idle"
    /\ LET b == image_boxes(img, Head(items).res, PIXEL_SHIFT)
       IN  IF b.raised # None
           THEN /\ raised' = b.raised
                /\ UNCHANGED pool
           ELSE /\ pool' = [phase |-> "modes", boxes |-> b.boxes,
                            pending |-> 1..Len(b.boxes), done |-> 0,
                            modes |-> [i \in 1..Len(b.boxes) |-> NoMode],
                            sims |-> [i \in 1..Len(b.boxes) |-> NoSim],
                            overtaken |-> pool.overtaken]
                /\ UNCHANGED raised
    /\ UNCHANGED <<OVERLAP_TILES, PIXEL_SHIFT, pc, paths, tiles, args, img,
                   old_shift, items, all_boxes, order, placed, canvas, before,
                   writers, out, qt, ib, th, mt>>

\* a worker finishes mode_color on one box, in any order
WorkerModeColor ==
    /\ pool.phase = "modes"
    /\ \E i \in pool.pending :
        pool' = [pool EXCEPT
                    !.modes[PoolResultSlot(i, pool.done)] =
                        mode_color(pool.boxes[i].img, FALSE),
                    !.pending = @ \ {i},
                    !.done = @ + 1,
                    !.overtaken = @ \/ \E j \in pool.pending : j < i]
    /\ UNCHANGED <<OVERLAP_TILES, PIXEL_SHIFT, pc, paths, tiles, args, img,
                   old_shift, items, all_boxes, order, placed, canvas, before,
                   writers, raised, out, qt, ib, th, mt>>

\* pool.map has returned; pool.starmap(most_similar_tile, ...) starts
PoolStarmap ==
    /\ pool.phase = "modes"
    /\ pool.pending = {}
    /\ pool' = [pool EXCEPT !.phase = "tiles",
                            !.pending = 1..Len(pool.boxes),
                            !.done = 0]
    /\ UNCHANGED <<OVERLAP_TILES, PIXEL_SHIFT, pc, paths, tiles, args, img,
                   old_shift, items, all_boxes, order, placed, canvas, before,
                   writers, raised, out, qt, ib, th, mt>>

\* a worker finishes most_similar_tile on one (mode, bucket) pair
WorkerMostSimilar ==
    /\ pool.phase = "tiles"
    /\ \E i \in pool.pending :
        pool' = [pool EXCEPT
                    !.sims[PoolResultSlot(i, pool.done)] =
                        most_similar_tile(pool.modes[i], Head(items).ts),
                    !.pending = @ \ {i},
                    !.done = @ + 1,
                    !.overtaken = @ \/ \E j \in pool.pending : j < i]
    /\ UNCHANGED <<OVERLAP_TILES, PIXEL_SHIFT, pc, paths, tiles, args, img,
                   old_shift, items, all_boxes, order, placed, canvas, before,
                   writers, raised, out, qt, ib, th, mt>>

\* pool.starmap has returned: the enumerate loop and "all_boxes += boxes"
PoolCollect ==
    /\ pool.phase = "tiles"
    /\ pool.pending = {}
    /\ IF \E i \in 1..Len(pool.sims) : pool.sims[i].raised # None
       THEN /\ raised' = <<"IndexError">>
            /\ UNCHANGED <<items, all_boxes>>
       ELSE /\ all_boxes' = all_boxes \o
                    [i \in 1..Len(pool.boxes) |->
                        SetMatch(pool.boxes[i], pool.sims[i])]
            /\ items' = Tail(items)
            /\ UNCHANGED raised
    /\ pool' = [PoolIdle EXCEPT !.overtaken = pool.overtaken]
    /\ UNCHANGED <<OVERLAP_TILES, PIXEL_SHIFT, pc, paths, tiles, args, img,
                   old_shift, order, placed, canvas, before, writers, out,
                   qt, ib, th, mt>>

\* the module as imported in the runs with a pool
InitPool ==
    /\ OVERLAP_TILES \in BOOLEAN
    /\ PIXEL_SHIFT = <<1, 1>>
    /\ Imported
    /\ qt = QtIdle
    /\ ib = IbIdle
    /\ th = ThIdle
    /\ mt = MtIdle

NextPool ==
    \/ Load
    \/ BuildStart(Images, {None}, {None}, {2})
    \/ PoolMapModes
    \/ WorkerModeColor
    \/ PoolStarmap
    \/ WorkerMostSimilar
    \/ PoolCollect
    \/ Finally
    \/ TileStart
    \/ PlaceNext
    \/ Return

SpecPool == InitPool /\ [][NextPool]_vars

--------------------------------------------------------------------------
(* Quantization applied twice to one channel value                         *)

\* a channel of a uint8 array
ChannelValues == 0..255

\* the level counts a configuration may name
LevelCounts == 1..256

InitQuant ==
    /\ OVERLAP_TILES = FALSE
    /\ PIXEL_SHIFT = None
    /\ Imported
    /\ ib = IbIdle
    /\ th = ThIdle
    /\ mt = MtIdle
    /\ \E v \in ChannelValues, n \in LevelCounts :
        qt = [pc |-> "start", v |-> v, n |-> n, q1 |-> 0, q2 |-> 0]

\* the quantization of an image as it is read or loaded
QuantizeOnce ==
    /\ qt.pc = "start"
    /\ qt' = [qt EXCEPT !.pc = "once", !.q1 = QuantizeU8(qt.v, qt.n)]
    /\ UNCHANGED <<OVERLAP_TILES, PIXEL_SHIFT, pc, paths, tiles, buildVars,
                   raised, ib, th, mt>>

\* the quantization of the result with the same level count
QuantizeAgain ==
    /\ qt.pc = "once"
    /\ qt' = [qt EXCEPT !.pc = "twice", !.q2 = QuantizeU8(qt.q1, qt.n)]
    /\ UNCHANGED <<OVERLAP_TILES, PIXEL_SHIFT, pc, paths, tiles, buildVars,
                   raised, ib, th, mt>>

NextQuant == QuantizeOnce \/ QuantizeAgain

SpecQuant == InitQuant /\ [][NextQuant]_vars

--------------------------------------------------------------------------
(* One call of image_boxes                                                 *)

\* the largest buffer side, tile side and stride of the calls
MaxSide == 4

MaxRes == 3

MaxShift == 3

\* a buffer whose pixels name their own row and column
CoordImage(h, w) == MkImage(h, w, LAMBDA y, x : <<y, x, 0, 255>>)

InitBoxes ==
    /\ OVERLAP_TILES = FALSE
    /\ PIXEL_SHIFT \in {None} \cup ((0..MaxShift) \X (0..MaxShift))
    /\ Imported
    /\ qt = QtIdle
    /\ th = ThIdle
    /\ mt = MtIdle
    /\ \E h \in 1..MaxSide, w \in 1..MaxSide, rh \in 1..MaxRes, rw \in 1..MaxRes :
        ib = [pc |-> "start", img |-> CoordImage(h, w), res |-> <<rh, rw>>,
              boxes |-> <<>>, raised |-> None]

\* boxes = image_boxes(img, res)
ImageBoxes ==
    /\ ib.pc = "start"
    /\ LET b == image_boxes(ib.img, ib.res, PIXEL_SHIFT)
       IN  ib' = [ib EXCEPT !.pc = "done", !.boxes = b.boxes,
                            !.raised = b.raised]
    /\ UNCHANGED <<OVERLAP_TILES, PIXEL_SHIFT, pc, paths, tiles, buildVars,
                   raised, qt, th, mt>>

NextBoxes == ImageBoxes

SpecBoxes == InitBoxes /\ [][NextBoxes]_vars

--------------------------------------------------------------------------
(* Builds with a library that was unpickled                                *)

\* a bucket entry as the loaders build it from a decoded tile
TileRec(tile) ==
    [tile |-> tile, mode |-> mode_color(tile, TRUE).mode,
     rel_freq |-> mode_color(tile, TRUE).freq]

\* libraries a pickle file may hold: the one load_tiles dumps after reading
\* a directory, one with a key whose list is empty, and one whose key is
\* not the shape of the tile under it
SoundLib ==
    load_tiles_with_config(<<Dir(<<Black11, Holed22>>)>>, <<(<<1, 1>>)>>, 2).tiles

EmptyBucketLib == <<[res |-> <<1, 1>>, ts |-> <<>>]>>

HalfEmptyLib ==
    <<[res |-> <<1, 1>>, ts |-> <<TileRec(Black11)>>],
      [res |-> <<1, 2>>, ts |-> <<>>]>>

MisfiledLib ==
    <<[res |-> <<1, 1>>, ts |-> <<TileRec(Black11)>>],
      [res |-> <<2, 2>>, ts |-> <<TileRec(Black11)>>]>>

PicklePathLists ==
    {<<Pickle(SoundLib)>>, <<Pickle(EmptyBucketLib)>>, <<Pickle(HalfEmptyLib)>>,
     <<Pickle(MisfiledLib)>>,
     <<Dir(<<Black11>>), Pickle(HalfEmptyLib)>>,
     <<Pickle(SoundLib), Dir(<<Grey11>>)>>}

NextPickle ==
    \/ LoadFrom(PicklePathLists)
    \/ BuildStart(Images, PixelShiftArgs, OverlapArgs, {1})
    \/ MatchSequential
    \/ Finally
    \/ TileStart
    \/ PlaceNext
    \/ Return

SpecPickle == Init /\ [][NextPickle]_vars

--------------------------------------------------------------------------
(* get_processed_image_boxes_from_img called from several threads          *)

\* the threads of the process, the calls each makes one after the other,
\* and the resolutions of a library
MaxThreads == 2

MaxCalls == 2

MaxBuckets == 2

Threads == 1..MaxThreads

\* a thread outside any call
ThreadIdle == [pc |-> "idle", pixel_shift |-> None, old_shift |-> None,
               todo |-> 0, used |-> <<>>, ncalls |-> 0]

\* the module as imported by a process whose threads share it
InitThreads ==
    /\ OVERLAP_TILES = FALSE
    /\ PIXEL_SHIFT \in {None, <<1, 1>>}
    /\ Imported
    /\ qt = QtIdle
    /\ ib = IbIdle
    /\ mt = MtIdle
    /\ th = [initial |-> PIXEL_SHIFT, calls |-> [t \in Threads |-> ThreadIdle]]

\* a thread enters get_processed_image_boxes_from_img(img, tiles,
\* pixel_shift=sh) with a library of n resolutions
ThreadCall(t) ==
    /\ th.calls[t].pc \in {"idle", "returned"}
    /\ th.calls[t].ncalls < MaxCalls
    /\ \E sh \in PixelShiftArgs, n \in 1..MaxBuckets :
        th' = [th EXCEPT !.calls[t] =
                [pc |-> "save", pixel_shift |-> sh, old_shift |-> None,
                 todo |-> n, used |-> <<>>, ncalls |-> @.ncalls + 1]]
    /\ UNCHANGED <<OVERLAP_TILES, PIXEL_SHIFT, pc, paths, tiles, buildVars,
                   raised, qt, ib, mt>>

\* old_shift = PIXEL_SHIFT
ThreadSave(t) ==
    /\ th.calls[t].pc = "save"
    /\ th' = [th EXCEPT !.calls[t].old_shift = PIXEL_SHIFT,
                        !.calls[t].pc = "override"]
    /\ UNCHANGED <<OVERLAP_TILES, PIXEL_SHIFT, pc, paths, tiles, buildVars,
                   raised, qt, ib, mt>>

\* the if / elif that sets PIXEL_SHIFT for the call
ThreadOverride(t) ==
    /\ th.calls[t].pc = "override"
    /\ PIXEL_SHIFT' = ShiftOverride(PIXEL_SHIFT, th.calls[t].pixel_shift)
    /\ th' = [th EXCEPT !.calls[t].pc = "loop"]
    /\ UNCHANGED <<OVERLAP_TILES, pc, paths, tiles, buildVars, raised, qt, ib,
                   mt>>

\* one pass of the loop: image_boxes(img, res) reads the module's PIXEL_SHIFT
ThreadBoxes(t) ==
    /\ th.calls[t].pc = "loop"
    /\ th.calls[t].todo > 0
    /\ th' = [th EXCEPT !.calls[t].used = Append(@, PIXEL_SHIFT),
                        !.calls[t].todo = @ - 1]
    /\ UNCHANGED <<OVERLAP_TILES, PIXEL_SHIFT, pc, paths, tiles, buildVars,
                   raised, qt, ib, mt>>

\* the finally clause: PIXEL_SHIFT = old_shift, and the return
ThreadRestore(t) ==
    /\ th.calls[t].pc = "loop"
    /\ th.calls[t].todo = 0
    /\ PIXEL_SHIFT' = th.calls[t].old_shift
    /\ th' = [th EXCEPT !.calls[t].pc = "returned"]
    /\ UNCHANGED <<OVERLAP_TILES, pc, paths, tiles, buildVars, raised, qt, ib,
                   mt>>

NextThreads ==
    \E t \in Threads :
        \/ ThreadCall(t)
        \/ ThreadSave(t)
        \/ ThreadOverride(t)
        \/ ThreadBoxes(t)
        \/ ThreadRestore(t)

SpecThreads == InitThreads /\ [][NextThreads]_vars

--------------------------------------------------------------------------
(* Builds of opaque images from opaque tiles, with the auto stride         *)

\* red as the caller's RGBA pixel and as the BGRA pixel cv2 decodes
RedRGBA == <<255, 0, 0, 255>>

RedBGRA == <<0, 0, 255, 255>>

OpaquePalette == {Black, RedRGBA}

\* every image of at most MaxPixels opaque pixels, and a black 4x4 image
OpaqueImages ==
    UNION {UNION {{[h |-> h, w |-> w, px |-> f] :
                        f \in [1..h -> [1..w -> OpaquePalette]]} :
                  w \in 1..(MaxPixels \div h)} :
           h \in 1..MaxPixels}
        \cup {Uniform(4, 4, Black)}

Red11 == Uniform(1, 1, RedBGRA)

Red22 == Uniform(2, 2, RedBGRA)

Black12 == Uniform(1, 2, Black)

Black13 == Uniform(1, 3, Black)

BlackRed12 == [h |-> 1, w |-> 2, px |-> <<<<Black, RedBGRA>>>>]

\* directories of opaque tiles: of one size, and of two sizes
OpaqueListings ==
    {<<Red22>>, <<Black11, Red11>>, <<BlackRed12>>, <<Black12, BlackRed12>>,
     <<Black13, Black12>>, <<Red22, Black11>>}

OpaquePathLists == {<<Dir(l)>> : l \in OpaqueListings}

NextOpaque ==
    \/ LoadFrom(OpaquePathLists)
    \/ BuildStart(OpaqueImages, {<<"auto">>}, OverlapArgs, {1})
    \/ MatchSequential
    \/ Finally
    \/ TileStart
    \/ PlaceNext
    \/ Return

SpecOpaque == Init /\ [][NextOpaque]_vars

--------------------------------------------------------------------------
(* One box: mode_color, then most_similar_tile against one bucket          *)

\* grey as quantization at two levels leaves it
GreyQ == <<127, 0, 0, 255>>

BoxPalette == {Transparent, Black, GreyQ}

\* the boxes: every image of at most MaxPixels pixels over the palette
BoxImages ==
    UNION {UNION {{[h |-> h, w |-> w, px |-> f] :
                        f \in [1..h -> [1..w -> BoxPalette]]} :
                  w \in 1..(MaxPixels \div h)} :
           h \in 1..MaxPixels}

GreyQ11 == Uniform(1, 1, GreyQ)

BlackGreyQ12 == [h |-> 1, w |-> 2, px |-> <<<<Black, GreyQ>>>>]

BlackClear12 == [h |-> 1, w |-> 2, px |-> <<<<Black, Transparent>>>>]

GreyQ12 == Uniform(1, 2, GreyQ)

\* buckets as the loader fills them: tiles of one size, in directory order,
\* some with the same dominant colour
Buckets ==
    {<<TileRec(Black11)>>,
     <<TileRec(Black11), TileRec(GreyQ11)>>,
     <<TileRec(GreyQ11), TileRec(Black11)>>,
     <<TileRec(BlackGreyQ12), TileRec(Black12), TileRec(BlackClear12)>>,
     <<TileRec(GreyQ12), TileRec(BlackClear12), TileRec(BlackGreyQ12)>>,
     <<TileRec(GreyQ12), TileRec(BlackGreyQ12), TileRec(Black12)>>}

InitMatch ==
    /\ OVERLAP_TILES = FALSE
    /\ PIXEL_SHIFT = None
    /\ Imported
    /\ qt = QtIdle
    /\ ib = IbIdle
    /\ th = ThIdle
    /\ \E im \in BoxImages, ts \in Buckets :
        mt = [MtIdle EXCEPT !.pc = "start", !.img = im, !.tiles = ts]

\* modes = map(mode_color, imgs), for the one box
ModeColor ==
    /\ mt.pc = "start"
    /\ mt' = [mt EXCEPT !.pc = "mode", !.bmf = mode_color(mt.img, FALSE)]
    /\ UNCHANGED <<OVERLAP_TILES, PIXEL_SHIFT, pc, paths, tiles, buildVars,
                   raised, qt, ib, th>>

\* most_similar_tile(m, ts), for the one box
MostSimilar ==
    /\ mt.pc = "mode"
    /\ mt' = [mt EXCEPT !.pc = "done",
                        !.sim = most_similar_tile(mt.bmf, mt.tiles)]
    /\ UNCHANGED <<OVERLAP_TILES, PIXEL_SHIFT, pc, paths, tiles, buildVars,
                   raised, qt, ib, th>>

NextMatch == ModeColor \/ MostSimilar

SpecMatch == InitMatch /\ [][NextMatch]_vars

--------------------------------------------------------------------------
(* The build as one function of its inputs                                 *)

\* the loop of get_processed_image_boxes_from_img without a pool
RECURSIVE PoolOfBoxes(_, _, _)
PoolOfBoxes(image, its, shift_global) ==
    IF its = <<>> THEN <<>>
    ELSE MatchAll(image_boxes(image, Head(its).res, shift_global).boxes,
                  Head(its).ts).boxes
            \o PoolOfBoxes(image, Tail(its), shift_global)

\* the loop of create_tiled_image_config
RECURSIVE Composite(_, _, _)
Composite(cv, ord, overlap) ==
    IF ord = <<>> THEN cv
    ELSE Composite(place_tile(cv, Head(ord), overlap).img, Tail(ord), overlap)

\* the canvas of a build of image with library lib
MosaicOf(image, lib, shift_global, overlap_tiles, overlap_global) ==
    Composite(Zeros(image.h, image.w),
              SortBoxes(PoolOfBoxes(image, SortedItems(lib), shift_global),
                        OverlapOf(overlap_global, overlap_tiles)),
              overlap_global)

--------------------------------------------------------------------------
(* Vocabulary of the properties                                            *)

Positions == (1..canvas.h) \X (1..canvas.w)

\* position p = <<row, column>> lies in the box's rectangle [pos, pos + shape)
Covers(b, p) ==
    /\ p[1] - b.pos[2] \in 1..b.img.h
    /\ p[2] - b.pos[1] \in 1..b.img.w

\* the pixel of the box's tile at the offset of p
TilePx(b, p) == b.tile.px[p[1] - b.pos[2]][p[2] - b.pos[1]]

FullyTransparent(im) ==
    \A y \in 1..im.h, x \in 1..im.w : im.px[y][x][4] = 0

\* the library with its resolution keys in another order
Reorderings(lib) ==
    {[i \in 1..Len(lib) |-> lib[f[i]]] :
        f \in {g \in [1..Len(lib) -> 1..Len(lib)] :
                \A i, j \in 1..Len(lib) : i # j => g[i] # g[j]}}

\* the stride in force during the call (PIXEL_SHIFT is restored after it)
StrideInForce == ShiftOverride(old_shift, args.pixel_shift)

Composing == pc \in {"tiling", "done"}

--------------------------------------------------------------------------
(* Properties                                                              *)

\* C1: with overlap_tiles = False no canvas pixel is written by more than one
\* box, and in the finished canvas every pixel with non-zero alpha is the
\* pixel, at the corresponding offset, of the tile of the one box that wrote
\* it.
C1_FirstFitWritesOnce ==
    (Composing /\ args.overlap_tiles = <<FALSE>>) =>
        \A p \in Positions :
            /\ Len(writers[p]) <= 1
            /\ (pc = "done" /\ canvas.px[p[1]][p[2]][4] # 0) =>
                /\ Len(writers[p]) = 1
                /\ canvas.px[p[1]][p[2]] = TilePx(order[writers[p][1]], p)

\* the boxes that cover p with a tile pixel that is not transparent there
\* (a box whose tile is transparent at p, the placeholder of a transparent
\* box among them, has nothing to show at p)
Showing(p) ==
    {k \in 1..Len(order) :
        Covers(order[k], p) /\ TilePx(order[k], p)[4] # 0}

\* C2: with overlap_tiles = True, every canvas pixel that two or more boxes
\* cover shows, once all boxes are placed, the tile pixel of a box with the
\* smallest match distance among the boxes covering it.
C2_BestMatchWinsOverlap ==
    (pc = "done" /\ args.overlap_tiles = <<TRUE>>) =>
        \A p \in Positions :
            Cardinality(Showing(p)) >= 2 =>
                \E k \in Showing(p) :
                    /\ \A j \in Showing(p) :
                            ~RatLess(order[j].min_dist, order[k].min_dist)
                    /\ canvas.px[p[1]][p[2]] = TilePx(order[k], p)

\* C3: the order of the resolution keys in the library does not affect the
\* finished canvas: the canvas of the build is the canvas of the build with
\* the same image and configuration and the keys in any other order.
C3_KeyOrderIrrelevant ==
    pc = "done" =>
        \A lib \in Reorderings(tiles) :
            canvas = MosaicOf(img, lib, StrideInForce, args.overlap_tiles,
                              OVERLAP_TILES)

\* two boxes of different resolutions with equal distances that share a pixel
TiedAcrossResolutions ==
    \E j, k \in 1..Len(order) :
        /\ <<order[j].tile.h, order[j].tile.w>> # <<order[k].tile.h, order[k].tile.w>>
        /\ ~RatLess(order[j].min_dist, order[k].min_dist)
        /\ ~RatLess(order[k].min_dist, order[j].min_dist)
        /\ \E p \in Positions : j \in Showing(p) /\ k \in Showing(p)

\* a finished build from a library whose keys are not in the order the loop
\* visits them, with boxes of two resolutions tied on one pixel
C3_Witness ==
    /\ pc = "done"
    /\ SortedItems(tiles) # tiles
    /\ TiedAcrossResolutions

\* C4: a build with a pool gives every box index the distance and the tile
\* that the build without a pool gives it, and the same canvas, whatever the
\* order in which the workers finish.
C4_PoolAgreesWithSequential ==
    /\ pc \in {"returned", "tiling", "done"} =>
            all_boxes = PoolOfBoxes(img, SortedItems(tiles), StrideInForce)
    /\ pc = "done" =>
            /\ canvas = MosaicOf(img, tiles, StrideInForce, args.overlap_tiles,
                                 OVERLAP_TILES)
            /\ out = SwapRB(canvas)

\* a finished build with a pool in which a task overtook an earlier one and
\* the boxes of one resolution did not all get the same match
C4_Witness ==
    /\ pc = "done"
    /\ args.pool_size > 1
    /\ pool.overtaken
    /\ \E j, k \in 1..Len(all_boxes) :
        /\ all_boxes[j].tile.h = all_boxes[k].tile.h
        /\ all_boxes[j].tile.w = all_boxes[k].tile.w
        /\ all_boxes[j].min_dist # all_boxes[k].min_dist

\* C5: a load that yields no usable tile does not return normally, so that no
\* build runs with an empty library.
C5_NoEmptyLibrary ==
    pc \in {"loaded", "boxes", "returned", "tiling", "done"} => tiles # <<>>

\* the readable files of the directories a load was given
FilesLoaded ==
    UNION {{paths[i].files[k] : k \in 1..Len(paths[i].files)} :
           i \in 1..Len(paths)} \ {Unreadable}

\* the tiles a file gives under the scales and depths in use
VariantsOf(f) ==
    UNION {{resize_image(QuantizeImage(f, cd), rs[k]) : k \in 1..Len(rs)} :
           cd \in ColorDepths, rs \in ResizingScales}

LibraryTiles ==
    UNION {{tiles[i].ts[k].tile : k \in 1..Len(tiles[i].ts)} :
           i \in 1..Len(tiles)}

\* C6: no bucket of a loaded library holds a variant of a tile file whose
\* every pixel has alpha 0.
C6_TransparentTileExcluded ==
    pc = "loaded" =>
        \A f \in FilesLoaded :
            FullyTransparent(f) => VariantsOf(f) \cap LibraryTiles = {}

\* every pixel of the buffer lies in a box that holds it
BufferCovered ==
    \A y \in 1..ib.img.h, x \in 1..ib.img.w :
        \E i \in 1..Len(ib.boxes) :
            /\ Covers(ib.boxes[i], <<y, x>>)
            /\ ib.boxes[i].img.px[y - ib.boxes[i].pos[2]][x - ib.boxes[i].pos[1]]
                    = ib.img.px[y][x]

\* every box is the res-sized slice at its position, cut at the buffer's edges
BoxesClipped ==
    \A i \in 1..Len(ib.boxes) :
        LET b == ib.boxes[i]
        IN  /\ b.pos[1] \in 0..(ib.img.w - 1)
            /\ b.pos[2] \in 0..(ib.img.h - 1)
            /\ b.img.h = Min(ib.res[1], ib.img.h - b.pos[2])
            /\ b.img.w = Min(ib.res[2], ib.img.w - b.pos[1])
            /\ \A dy \in 1..b.img.h, dx \in 1..b.img.w :
                    b.img.px[dy][dx] = ib.img.px[b.pos[2] + dy][b.pos[1] + dx]

\* the stride is the tile size, or explicit and in neither axis zero or
\* larger than the tile
StrideWithinTile ==
    \/ PIXEL_SHIFT = None
    \/ /\ PIXEL_SHIFT[1] \in 1..ib.res[2]
       /\ PIXEL_SHIFT[2] \in 1..ib.res[1]

\* C7 as stated: for every stride, auto or an explicit (int, int), the boxes
\* of image_boxes cover every pixel of the buffer and each is the clipped
\* slice.
C7_CoversForEveryStride ==
    ib.pc = "done" => ib.raised = None /\ BufferCovered /\ BoxesClipped

\* C7 (amended): for the auto stride and for an explicit stride (sx, sy) with
\* 1 <= sx <= w and 1 <= sy <= h of the resolution (h, w), the boxes of
\* image_boxes cover every pixel of the buffer and each is the clipped slice.
C7_CoversWithinTileStride ==
    (ib.pc = "done" /\ StrideWithinTile) =>
        ib.raised = None /\ BufferCovered /\ BoxesClipped

\* an explicit stride smaller than the tile on a buffer that the tile does
\* not divide: overlapping boxes, the last of them clipped
C7_Witness ==
    /\ ib.pc = "done"
    /\ PIXEL_SHIFT # None
    /\ StrideWithinTile
    /\ PIXEL_SHIFT[1] < ib.res[2]
    /\ ib.img.w % ib.res[2] # 0
    /\ \E i \in 1..Len(ib.boxes) :
        ib.boxes[i].img.w < ib.res[2] /\ ib.boxes[i].img.h < ib.res[1]

\* C8: placing a box never raises and changes no canvas pixel outside the
\* box's own clipped rectangle [pos, pos + box shape); the canvas keeps the
\* shape of the image.
C8_PlacementStaysInBox ==
    pc \in {"tiling", "done", "failed"} =>
        /\ raised # <<"IndexError">>
        /\ Composing => canvas.h = img.h /\ canvas.w = img.w
        /\ placed >= 1 =>
            \A p \in Positions :
                canvas.px[p[1]][p[2]] # before.px[p[1]][p[2]] =>
                    Covers(order[placed], p)

\* an edge box, smaller than its tile in both axes, has just been written
C8_Witness ==
    /\ Composing
    /\ placed >= 1
    /\ order[placed].img.h < order[placed].tile.h
    /\ order[placed].img.w < order[placed].tile.w
    /\ order[placed].pos # <<0, 0>>
    /\ canvas # before

\* C9: a fully transparent source box is matched to a zero-filled placeholder
\* of a bucket's resolution with distance 0, and placing it leaves the canvas
\* as it was, wherever the box falls in the order.
C9_TransparentBoxIsNoOp ==
    Composing =>
        /\ \A k \in 1..Len(order) :
            FullyTransparent(order[k].img) =>
                /\ order[k].min_dist = <<0, 1>>
                /\ order[k].tile = Zeros(order[k].tile.h, order[k].tile.w)
                /\ \E i \in 1..Len(tiles) :
                        tiles[i].res = <<order[k].tile.h, order[k].tile.w>>
        /\ (placed >= 1 /\ FullyTransparent(order[placed].img)) =>
                canvas = before

\* a transparent box has just been placed on a region another box had
\* written, late in the order
C9_Witness ==
    /\ Composing
    /\ placed >= 2
    /\ FullyTransparent(order[placed].img)
    /\ \E p \in Positions :
        /\ Covers(order[placed], p)
        /\ canvas.px[p[1]][p[2]][4] # 0

\* C10: quantizing a quantized 8-bit channel value again with the same level
\* count gives the same value.
C10_QuantizeIdempotent ==
    qt.pc = "twice" => qt.q2 = qt.q1

\* C11: the engine never indexes into an empty bucket (no IndexError leaves
\* the matching loop) and never records a box without a tile or a distance,
\* also for a library that holds a resolution key with an empty list.
C11_EmptyBucketGuarded ==
    /\ pc = "boxes" => raised # <<"IndexError">>
    /\ \A i \in 1..Len(all_boxes) :
        all_boxes[i].tile # None /\ all_boxes[i].min_dist # None

\* C12: every call partitions with the stride its own pixel_shift argument
\* selects (the module's stride at import when the argument is None), and
\* when no call is under way the module's PIXEL_SHIFT is what it was at
\* import.
C12_NoShiftLeak ==
    /\ \A t \in DOMAIN th.calls :
        \A k \in 1..Len(th.calls[t].used) :
            th.calls[t].used[k] =
                ShiftOverride(th.initial, th.calls[t].pixel_shift)
    /\ (\A t \in DOMAIN th.calls : th.calls[t].pc \in {"idle", "returned"})
            => PIXEL_SHIFT = th.initial

\* C13: a build that returns has had place_tile called on every box of the
\* pool, in order, and returns that canvas; a build that has not returned, or
\* that failed, has handed no canvas to the caller.
C13_NoPartialCanvas ==
    /\ pc = "done" =>
        /\ raised = None
        /\ items = <<>>
        /\ Len(order) = Len(all_boxes)
        /\ placed = Len(all_boxes)
        /\ canvas = Composite(Zeros(img.h, img.w), order, OVERLAP_TILES)
        /\ out = SwapRB(canvas)
    /\ pc # "done" => out = NoImage
    /\ pc = "failed" => raised # None

\* a build failed in the compositor after it had drawn part of the canvas
C13_Witness ==
    /\ pc = "failed"
    /\ placed >= 2
    /\ placed < Len(order)
    /\ canvas # Zeros(canvas.h, canvas.w)
    /\ out = NoImage

\* C14: in every library load_tiles_with_config returns, for directories and
\* pickle files alike, each tile in the bucket keyed (h, w) has h rows and w
\* columns.
C14_BucketKeyIsTileShape ==
    pc = "loaded" =>
        \A i \in 1..Len(tiles) :
            \A k \in 1..Len(tiles[i].ts) :
                /\ tiles[i].ts[k].tile.h = tiles[i].res[1]
                /\ tiles[i].ts[k].tile.w = tiles[i].res[2]

\* ceil(n / d) for positive d
CeilDiv(n, d) == (n + d - 1) \div d

\* C15: an opaque image built from a single bucket of opaque (h, w) tiles
\* with the auto stride: there are ceil(H/h) * ceil(W/w) boxes, every box is
\* written, every canvas pixel is written exactly once, by the box that
\* covers it, and the pixel at (y, x) is its tile's pixel at
\* (y mod h, x mod w); the black 4x4 image with one red 2x2 tile gives a
\* uniform red 4x4 image from 4 placements.
C15_SingleBucketTilesExactly ==
    (pc = "done" /\ Len(tiles) = 1) =>
        LET h == tiles[1].res[1]
            w == tiles[1].res[2]
        IN  /\ Len(order) = CeilDiv(canvas.h, h) * CeilDiv(canvas.w, w)
            /\ placed = Len(order)
            /\ \A k \in 1..Len(order) : \E p \in Positions : writers[p] = <<k>>
            /\ \A p \in Positions :
                /\ Len(writers[p]) = 1
                /\ Covers(order[writers[p][1]], p)
                /\ canvas.px[p[1]][p[2]] =
                        order[writers[p][1]].tile.px[((p[1] - 1) % h) + 1]
                                                    [((p[2] - 1) % w) + 1]
            /\ (canvas.h = 4 /\ canvas.w = 4 /\ paths = <<Dir(<<Red22>>)>>) =>
                    Len(order) = 4 /\ out = Uniform(4, 4, RedRGBA)

\* the black 4x4 image has been built from the red 2x2 tile
C15_Witness ==
    /\ pc = "done"
    /\ img = Uniform(4, 4, Black)
    /\ paths = <<Dir(<<Red22>>)>>
    /\ placed = 4

NoZeroAlpha ==
    \A p \in Positions : canvas.px[p[1]][p[2]][4] # 0

\* C20 as stated: an opaque image built from opaque tiles with the auto
\* stride has no zero-alpha pixel in the finished canvas, for any number of
\* buckets and under either overlap policy.
C20_OpaqueBuildLeavesNoGap ==
    pc = "done" => NoZeroAlpha

\* C20 (amended): an opaque image built from opaque tiles with the auto
\* stride has no zero-alpha pixel in the finished canvas when the library has
\* a single bucket, or when place_tile overwrites (the module's OVERLAP_TILES
\* is true).
C20_NoGapSingleBucketOrOverwrite ==
    (pc = "done" /\ (Len(tiles) = 1 \/ OVERLAP_TILES)) => NoZeroAlpha

\* a finished build from two buckets in which boxes of both resolutions
\* wrote a pixel
C20_Witness ==
    /\ pc = "done"
    /\ Len(tiles) >= 2
    /\ OVERLAP_TILES
    /\ \E p \in Positions : Len(writers[p]) >= 2

\* the pixels of the box that are not fully transparent, and how many of
\* them have the RGB value c
Visible(im) ==
    {p \in (1..im.h) \X (1..im.w) : im.px[p[1]][p[2]][4] # 0}

RGB(x) == <<x[1], x[2], x[3]>>

CountOf(im, c) ==
    Cardinality({p \in Visible(im) : RGB(im.px[p[1]][p[2]]) = c})

\* C16: mode_color with ignore_alpha = False gives no dominant colour only
\* for a box whose every pixel is transparent; otherwise it gives a most
\* frequent RGB value of the non-transparent pixels, with relative frequency
\* its count over the count of all pixels.
C16_SentinelNeverWins ==
    mt.pc \in {"mode", "done"} =>
        IF Visible(mt.img) = {}
        THEN mt.bmf.mode = None
        ELSE /\ mt.bmf.mode # None
             /\ \E p \in Visible(mt.img) : RGB(mt.img.px[p[1]][p[2]]) = mt.bmf.mode
             /\ \A p \in Visible(mt.img) :
                    CountOf(mt.img, RGB(mt.img.px[p[1]][p[2]]))
                        <= CountOf(mt.img, mt.bmf.mode)
             /\ mt.bmf.freq = <<CountOf(mt.img, mt.bmf.mode), mt.img.h * mt.img.w>>

\* (1 + euclidean RGB distance of the box's colour to tile k's colour) over
\* the box's frequency, as a rational
DistTo(k) ==
    <<(1 + color_distance(mt.bmf.mode, mt.tiles[k].mode)) * mt.bmf.freq[2],
      mt.bmf.freq[1]>>

\* the bucket with other relative frequencies on its tiles
Retagged(ts) == [k \in 1..Len(ts) |-> [ts[k] EXCEPT !.rel_freq = <<1, 7>>]]

\* C17: for a box with a dominant colour most_similar_tile returns the tile
\* of the bucket that minimises (1 + RGB distance) / box frequency, and that
\* minimum; among tiles at the minimum it returns the earliest; the tiles'
\* own relative frequencies do not change the result.
C17_EarliestNearestTile ==
    (mt.pc = "done" /\ mt.bmf.mode # None) =>
        /\ mt.sim.raised = None
        /\ \E k \in 1..Len(mt.tiles) :
            /\ mt.sim.tile = mt.tiles[k].tile
            /\ mt.sim.min_dist = DistTo(k)
            /\ \A j \in 1..Len(mt.tiles) : ~RatLess(DistTo(j), DistTo(k))
            /\ \A j \in 1..(k - 1) : RatLess(DistTo(k), DistTo(j))
        /\ most_similar_tile(mt.bmf, Retagged(mt.tiles)) = mt.sim

\* a box matched against a bucket in which a later, different tile is as
\* near as the one returned
C17_Witness ==
    /\ mt.pc = "done"
    /\ mt.bmf.mode # None
    /\ mt.bmf.freq[1] < mt.bmf.freq[2]
    /\ \E j, k \in 1..Len(mt.tiles) :
        /\ j < k
        /\ mt.sim.tile = mt.tiles[j].tile
        /\ mt.tiles[k].tile # mt.tiles[j].tile
        /\ mt.tiles[k].rel_freq # mt.tiles[j].rel_freq
        /\ DistTo(k) = DistTo(j)

\* C18: the overlap_tiles argument decides the order and the write policy
\* together: the boxes are placed in descending distance order and written
\* unconditionally when it is true, in ascending order and written only on
\* an unwritten region when it is false, whatever the module's OVERLAP_TILES.
C18_ArgumentSelectsPolicy ==
    (Composing /\ args.overlap_tiles # None) =>
        /\ order = SortBoxes(all_boxes, args.overlap_tiles[1])
        /\ placed >= 1 =>
            canvas = place_tile(before, order[placed], args.overlap_tiles[1]).img

\* the box has no dominant colour
NoDominant(b) == mode_color(b.img, FALSE).mode = None

\* C19: matching against the non-empty buckets of a loaded library raises
\* nothing; a box with a dominant colour has a frequency f with 0 < f <= 1
\* and a match distance of at least 1, a box without one has the placeholder
\* with distance 0; so in the order of placement the placeholders come
\* before all real matches when ascending and after them when descending.
C19_MatchingCannotFail ==
    /\ pc = "boxes" => raised = None
    /\ pc = "returned" =>
        \A i \in 1..Len(all_boxes) :
            LET m == mode_color(all_boxes[i].img, FALSE)
            IN  IF m.mode = None
                THEN /\ all_boxes[i].min_dist = <<0, 1>>
                     /\ FullyTransparent(all_boxes[i].tile)
                ELSE /\ 0 < m.freq[1]
                     /\ m.freq[1] <= m.freq[2]
                     /\ ~RatLess(all_boxes[i].min_dist, <<1, 1>>)
    /\ (pc = "tiling" /\ placed = 0) =>
        \A j, k \in 1..Len(order) :
            (j < k /\ NoDominant(order[j]) # NoDominant(order[k])) =>
                IF OverlapOf(OVERLAP_TILES, args.overlap_tiles)
                THEN NoDominant(order[k])
                ELSE NoDominant(order[j])

\* an order that holds a placeholder and a real match whose tile is exactly
\* the box's colour, the placeholder later in the pool than the match
C19_Witness ==
    /\ pc = "tiling"
    /\ placed = 0
    /\ ~OverlapOf(OVERLAP_TILES, args.overlap_tiles)
    /\ \E j, k \in 1..Len(all_boxes) :
        /\ j < k
        /\ ~NoDominant(all_boxes[j])
        /\ all_boxes[j].min_dist = <<1, 1>>
        /\ NoDominant(all_boxes[k])
    /\ NoDominant(order[1])

====
